---- MODULE Spec2Model ----
(***************************************************************************)
(* A model of map.js: the airport map of Chile.                            *)
(*                                                                         *)
(*   - createColorScale and the d3 sequential scale built on it            *)
(*   - the coordinate repair done by loadAirportData                       *)
(*   - initMap, drawMap, createLegend, handleResize and the debounced      *)
(*     resize listener, as event-loop tasks over the page's DOM            *)
(*                                                                         *)
(* Numbers.  A colour parameter t is held as the integer tn with           *)
(* t = tn / Den, Den = 100 * SubSteps, so that every control point of the  *)
(* palette and every legend stop is an integer.  A parsed coordinate is a  *)
(* record [nan, val] with val in thousandths.  Strings the code slices are *)
(* sequences of one-character strings.                                     *)
(***************************************************************************)
EXTENDS Integers, Sequences, FiniteSets, TLC

VARIABLES
    \* colour lookups (createColorScale and its two callers)
    t, rgb, pairSeg,
    \* coordinate repair of one raw field
    raw, coord,
    \* the environment of the page: domestic_air_ops.csv and the window
    csv, window,
    \* module state of map.js (lines 6-7, 347)
    airports, svg, mapGroup, current, resizeTimer,
    \* the event loop: position of initMap, pending timers, pending
    \* world.geojson requests of initMap and of handleResize
    initPc, timers, pendInit, pendResize,
    \* the document, and what the last task threw or logged as an error
    dom, thrown,
    \* history of the resize listener
    hist

colorVars == <<t, rgb, pairSeg>>
normVars  == <<raw, coord>>
envVars   == <<csv, window>>
modVars   == <<airports, svg, mapGroup, current, resizeTimer>>
loopVars  == <<initPc, timers, pendInit, pendResize>>
pageVars  == <<envVars, modVars, loopVars, dom, thrown, hist>>
vars      == <<colorVars, normVars, pageVars>>

----------------------------------------------------------------------------
(* Bounds *)

\* t is sampled every 1/(100 * SubSteps)
SubSteps == 2
\* largest reduction_pct (in percent) a marker is given
MaxPct == 104
\* longest raw coordinate field
MaxRawLen == 8
\* most rows of domestic_air_ops.csv
MaxRows == 2
\* most resize events
MaxResizes == 2

Den == 100 * SubSteps

----------------------------------------------------------------------------
(* createColorScale, map.js 42-82 *)

\* the palette; pos in percent, color as the characters of the hex string
colors ==
    << [pos |-> 0,   color |-> <<"#","4","f","c","3","f","7">>],
       [pos |-> 20,  color |-> <<"#","4","2","a","5","f","5">>],
       [pos |-> 40,  color |-> <<"#","7","e","5","7","c","2">>],
       [pos |-> 60,  color |-> <<"#","a","c","2","6","c","4","f","f">>],
       [pos |-> 80,  color |-> <<"#","e","c","4","0","7","a">>],
       [pos |-> 100, color |-> <<"#","e","f","5","3","5","0">>] >>

\* colors[i].pos in units of 1/Den
PosOf(i) == colors[i].pos * SubSteps

HexDigit(c) ==
    CASE c = "0" -> 0  [] c = "1" -> 1  [] c = "2" -> 2  [] c = "3" -> 3
      [] c = "4" -> 4  [] c = "5" -> 5  [] c = "6" -> 6  [] c = "7" -> 7
      [] c = "8" -> 8  [] c = "9" -> 9  [] c = "a" -> 10 [] c = "b" -> 11
      [] c = "c" -> 12 [] c = "d" -> 13 [] c = "e" -> 14 [] c = "f" -> 15

\* hex.slice(from, to) of JavaScript: characters from..to-1, counted from 0
slice(s, from, to) == SubSeq(s, from + 1, to)

\* parseInt(s, 16) of a two-digit string
parseInt16(s) == 16 * HexDigit(s[1]) + HexDigit(s[2])

parseHex(hex) ==
    [r |-> parseInt16(slice(hex, 1, 3)),
     g |-> parseInt16(slice(hex, 3, 5)),
     b |-> parseInt16(slice(hex, 5, 7))]

\* the test written  t > colors[i].pos && t <= colors[i+1].pos
MatchingOpen(tn) ==
    { i \in 1..(Len(colors) - 1) : tn > PosOf(i) /\ tn <= PosOf(i + 1) }

\* the segments i for which  t >= colors[i].pos && t <= colors[i+1].pos
Matching(tn) ==
    { i \in 1..(Len(colors) - 1) : tn >= PosOf(i) /\ tn <= PosOf(i + 1) }

Min(S) == CHOOSE x \in S : \A y \in S : x <= y

\* the loop with its break: the first matching segment; 0 when none
\* matches and lowerColor, upperColor stay undefined
FindSegment(tn) == IF Matching(tn) = {} THEN 0 ELSE Min(Matching(tn))

\* eased = localT * localT * (3 - 2 * localT) with localT = a / w,
\* as the fraction EasedNum / w^3
EasedNumSkewed(a, w) == a * a * (2 * w - 3 * a)

EasedNum(a, w) == a * a * (3 * w - 2 * a)

\* Math.round(lo + (up - lo) * num / den): floor(x + 1/2)
RoundLerp(lo, up, num, den) ==
    (2 * (lo * den + (up - lo) * num) + den) \div (2 * den)

TypeError == [err |-> TRUE, r |-> 0, g |-> 0, b |-> 0]

\* no colour computed
NoRgb == [err |-> FALSE, r |-> -1, g |-> -1, b |-> -1]

\* lines 72-81 for segment i
InSegment(i, tn) ==
    LET lower == parseHex(colors[i].color)
        upper == parseHex(colors[i + 1].color)
        w     == PosOf(i + 1) - PosOf(i)
        a     == tn - PosOf(i)
        num   == EasedNum(a, w)
        den   == w * w * w
    IN  [err |-> FALSE,
         r |-> RoundLerp(lower.r, upper.r, num, den),
         g |-> RoundLerp(lower.g, upper.g, num, den),
         b |-> RoundLerp(lower.b, upper.b, num, den)]

\* parseHex(lowerColor.color) throws a TypeError when lowerColor is undefined
createColorScale(tn) ==
    IF FindSegment(tn) = 0 THEN TypeError ELSE InSegment(FindSegment(tn), tn)

\* d3.scaleSequential(t => createColorScale(t)).domain([0, 100]), map.js
\* 187-188: t = (x - 0) / (100 - 0), not clamped.  x in units of 1/SubSteps
colorScale(x) == createColorScale(x)

\* the offsets of the legend's gradient stops: d3.range(0, 101, 2)
stops == { s \in 0..100 : s % 2 = 0 }

----------------------------------------------------------------------------
(* The coordinate repair of loadAirportData, map.js 16-22 *)

Digits == {"0", "1", "2", "3", "4", "5", "6", "7", "8", "9"}

DigitVal(c) == HexDigit(c)

\* str.replace(/\./g, ''): every '.' removed
RECURSIVE replaceAllDots(_)
replaceAllDots(s) ==
    IF s = <<>> THEN <<>>
    ELSE IF Head(s) = "." THEN replaceAllDots(Tail(s))
    ELSE <<Head(s)>> \o replaceAllDots(Tail(s))

\* str.replace('.', ''): the first '.' alone removed
RECURSIVE replaceFirstDot(_)
replaceFirstDot(s) ==
    IF s = <<>> THEN <<>>
    ELSE IF Head(s) = "." THEN Tail(s)
    ELSE <<Head(s)>> \o replaceFirstDot(Tail(s))

\* str.substring(from, to), 0 <= from <= to: both ends clamped to the length
substring(s, from, to) ==
    SubSeq(s, (IF from > Len(s) THEN Len(s) ELSE from) + 1,
              IF to > Len(s) THEN Len(s) ELSE to)

\* the number of digits of s from index i on, up to the first non-digit
RECURSIVE DigitRun(_, _)
DigitRun(s, i) ==
    IF i > Len(s) \/ s[i] \notin Digits THEN 0 ELSE 1 + DigitRun(s, i + 1)

\* the value of the n digits of s that start at index i
RECURSIVE DigitsValue(_, _, _)
DigitsValue(s, i, n) ==
    IF n = 0 THEN 0
    ELSE 10 * DigitsValue(s, i, n - 1) + DigitVal(s[i + n - 1])

NaN == [nan |-> TRUE, val |-> 0]

\* no coordinate computed yet
NoCoord == [done |-> FALSE, nan |-> FALSE, val |-> 0]

\* parseFloat(s) for s without white space, exponent or "Infinity": the
\* longest prefix  [+-] digits [. digits]  is read and the rest ignored;
\* NaN when that prefix holds no digit.  The value is in thousandths (the
\* code only passes strings with at most three characters after the point).
parseFloat(s) ==
    LET signed  == Len(s) >= 1 /\ s[1] \in {"-", "+"}
        start   == IF signed THEN 2 ELSE 1
        intLen  == DigitRun(s, start)
        dotAt   == start + intLen
        hasDot  == dotAt <= Len(s) /\ s[dotAt] = "."
        fracLen == IF hasDot THEN DigitRun(s, dotAt + 1) ELSE 0
        f1      == IF fracLen >= 1 THEN DigitVal(s[dotAt + 1]) ELSE 0
        f2      == IF fracLen >= 2 THEN DigitVal(s[dotAt + 2]) ELSE 0
        f3      == IF fracLen >= 3 THEN DigitVal(s[dotAt + 3]) ELSE 0
        mag     == 1000 * DigitsValue(s, start, intLen) + 100 * f1 + 10 * f2 + f3
    IN  IF intLen + fracLen = 0 THEN NaN
        ELSE [nan |-> FALSE,
              val |-> IF signed /\ s[1] = "-" THEN 0 - mag ELSE mag]

\* line 17 with the g flag left off the pattern
stripFirst(str) == replaceFirstDot(str)

\* line 17 (18 for lon) on the characters of d.lat.toString()
strip(str) == replaceAllDots(str)

\* lines 17 and 21 (18 and 22 for lon)
normalize(str) ==
    LET latStr == strip(str)
    IN  parseFloat(substring(latStr, 0, 3) \o <<".">> \o substring(latStr, 3, 6))

----------------------------------------------------------------------------
(* loadAirportData, map.js 10-40 *)

\* rows of domestic_air_ops.csv as d3.csvParse returns them: every column of
\* the header is a string, "" when the row is short (codigo, ops_2019 and
\* ops_2020 are copied through and are left out)
GoodRow ==
    [lat |-> <<"-","3","3","6","6","9","5">>,
     lon |-> <<"-","7","0","6","4","5","3">>, var_pct |-> -60]
GrowthRow ==
    [lat |-> <<"-","5","3",".","0","0",".","2","7">>,
     lon |-> <<"-","7","0",".","8","5","4","6">>, var_pct |-> 150]
BadRow ==
    [lat |-> <<"n",".","a">>, lon |-> <<>>, var_pct |-> -100]

RowSamples == {GoodRow, GrowthRow, BadRow}

Tables == UNION { [1..n -> RowSamples] : n \in 0..MaxRows }

\* what d3.text and d3.csvParse deliver: a failed request, a file without
\* the lat and lon columns (d.lat is undefined), or a table
CsvFiles ==
    { [ok |-> FALSE, columns |-> TRUE, rows |-> <<>>],
      [ok |-> TRUE, columns |-> FALSE, rows |-> <<GoodRow>>] }
    \cup { [ok |-> TRUE, columns |-> TRUE, rows |-> rs] : rs \in Tables }

Abs(x) == IF x < 0 THEN 0 - x ELSE x

\* the object built for one row, lines 16-31
Record(d) ==
    [lat |-> normalize(d.lat), lon |-> normalize(d.lon),
     reduction_pct |-> Abs(d.var_pct)]

IsNaNRecord(a) == a.lat.nan \/ a.lon.nan

\* a loader that gives up on the whole file when one row does not parse
loadAbortOnBadRow(file, old) ==
    IF ~file.ok \/ (~file.columns /\ file.rows # <<>>) THEN old
    ELSE IF \E i \in 1..Len(file.rows) : IsNaNRecord(Record(file.rows[i]))
         THEN old
         ELSE [i \in 1..Len(file.rows) |-> Record(file.rows[i])]

\* the value of `airports` after loadAirportData: csvData.map(...) is
\* assigned unless d3.text rejects or d.lat.toString() throws, and then the
\* catch block leaves `airports` as it was
loadAirportData(file, old) ==
    IF ~file.ok \/ (~file.columns /\ file.rows # <<>>) THEN old
    ELSE [i \in 1..Len(file.rows) |-> Record(file.rows[i])]

\* whether loadAirportData reaches its catch block
LoadFails(file) == ~file.ok \/ (~file.columns /\ file.rows # <<>>)

----------------------------------------------------------------------------
(* getMapDimensions, map.js 85-96 *)

Min2(a, b) == IF a < b THEN a ELSE b
Max2(a, b) == IF a > b THEN a ELSE b

\* the container's clientWidth and the window's innerHeight
Windows == { [clientWidth |-> 340, innerHeight |-> 800],
             [clientWidth |-> 500, innerHeight |-> 1000] }

getMapDimensions(w) ==
    LET containerWidth == w.clientWidth - 40
        maxWidth == Min2(350, containerWidth)
        height   == Min2(700, (w.innerHeight * 6) \div 10)
    IN  [width |-> Max2(250, maxWidth), height |-> Max2(500, height)]

\* currentWidth and currentHeight before initMap or handleResize set them
NoDims == [width |-> 0, height |-> 0]

----------------------------------------------------------------------------
(* drawMap and createLegend, map.js 159-225 and 251-319 *)

EmptyDom ==
    [groups |-> 0, tooltips |-> 0, listeners |-> 0,
     outlines |-> 0, markers |-> <<>>,
     defs |-> 0, gradients |-> 0, stops |-> 0,
     legendSvgs |-> 0, legendRects |-> 0, legendLabels |-> 0]

\* the legend's labels, line 305
values == <<0, 25, 50, 75, 100>>

\* defs.select("#legend-gradient").remove() removes the first match and
\* its stops
removeGradient(d) ==
    IF d.gradients = 0 THEN d
    ELSE [d EXCEPT !.gradients = @ - 1, !.stops = @ - Cardinality(stops)]

\* createLegend on document d
createLegend(d) ==
    LET cleared == [d EXCEPT !.legendSvgs = 0, !.legendRects = 0,
                             !.legendLabels = 0]
        withDefs == [cleared EXCEPT !.defs = IF @ = 0 THEN 1 ELSE @]
        removed  == removeGradient(withDefs)
    IN  [removed EXCEPT !.gradients = @ + 1,
                        !.stops = @ + Cardinality(stops),
                        !.legendSvgs = @ + 1,
                        !.legendRects = @ + 1,
                        !.legendLabels = @ + Len(values)]

\* the airports whose fill colour cannot be computed
BadFill(air) ==
    { i \in 1..Len(air) : colorScale(air[i].reduction_pct * SubSteps).err }

\* the circles after .enter().append("circle") and the cx, cy, r and fill
\* attributes: .attr("fill", ...) visits the circles in order and stops at
\* the first one for which colorScale throws
Circles(air) ==
    [i \in 1..Len(air) |->
        [nanPos |-> IsNaNRecord(air[i]),
         fill |-> IF BadFill(air) # {} /\ i >= Min(BadFill(air))
                  THEN NoRgb
                  ELSE colorScale(air[i].reduction_pct * SubSteps)]]

\* mapGroup.selectAll("*").remove(), lines 176-177
clearGroup(d) == [d EXCEPT !.outlines = 0, !.markers = <<>>]

\* drawMap once Chile is found: the document afterwards, and whether the
\* call ended in a TypeError before createLegend
drawMap(d, air) ==
    LET cleared == clearGroup(d)
        drawn   == [cleared EXCEPT !.outlines = @ + 1,
                                   !.markers = @ \o Circles(air)]
    IN  IF BadFill(air) # {}
        THEN [dom |-> drawn, threw |-> TRUE]
        ELSE [dom |-> createLegend(drawn), threw |-> FALSE]

\* the three click listeners of setupButtons, lines 227-249
setupButtons(d) == [d EXCEPT !.listeners = @ + 3]

----------------------------------------------------------------------------
(* The page: initMap, the resize listener, handleResize *)

\* the delay of the resize timer, line 350
Delay == 250

\* amounts by which the clock advances
Steps == {125}

\* what a world.geojson request ends with
WorldOutcomes == {"chile", "nochile", "rejected"}

\* resizes: resize events so far; since: time since the last one, counted
\* up to Delay; a burst begins with a resize event that comes Delay or more
\* after its predecessor: burstEvents and burstCalls count the resize
\* events and the handleResize calls since; quiet: the value of since when
\* handleResize last ran; drawn: some drawMap call has found Chile
NoHist == [resizes |-> 0, since |-> Delay, burstEvents |-> 0,
           burstCalls |-> 0, quiet |-> Delay, drawn |-> FALSE]

\* document.addEventListener('DOMContentLoaded', initMap): initMap runs up
\* to its await of loadAirportData, which awaits d3.text
DOMContentLoaded ==
    /\ initPc = "start"
    /\ initPc' = "awaitCsv"
    /\ thrown' = "none"
    /\ UNCHANGED <<envVars, modVars, timers, pendInit, pendResize, dom,
                   hist, colorVars, normVars>>

\* d3.text settles: the rest of loadAirportData and of initMap, lines 13-40
\* and 119-156
CsvSettled ==
    /\ initPc = "awaitCsv"
    /\ airports' = loadAirportData(csv, airports)
    /\ IF Len(airports') = 0
       THEN /\ initPc' = "stopped"
            /\ thrown' = "No airport data loaded"
            /\ UNCHANGED <<svg, mapGroup, current, pendInit, dom>>
       ELSE /\ initPc' = "drawing"
            /\ current' = getMapDimensions(window)
            /\ svg' = "set"
            /\ mapGroup' = "set"
            /\ dom' = [dom EXCEPT !.groups = @ + 1, !.tooltips = @ + 1]
            /\ pendInit' = 1
            /\ thrown' = "none"
    /\ UNCHANGED <<envVars, resizeTimer, timers, pendResize, hist,
                   colorVars, normVars>>

\* the callbacks of a d3.json("world.geojson") request: drawMap (and, for
\* initMap's request, setupButtons), or the catch callback.  mapGroup is
\* read by drawMap at line 177.
AfterWorld(outcome, buttons) ==
    LET drawn == drawMap(dom, airports)
        done(d) == IF buttons THEN setupButtons(d) ELSE d
    IN  CASE outcome = "rejected" ->
               /\ thrown' = "Error loading map data"
               /\ UNCHANGED <<dom, hist>>
          [] outcome = "nochile" ->
               /\ thrown' = "Chile not found in the data"
               /\ dom' = done(dom)
               /\ UNCHANGED hist
          [] outcome = "chile" /\ mapGroup = "undefined" ->
               /\ thrown' = "TypeError: mapGroup is undefined"
               /\ UNCHANGED dom
               /\ hist' = [hist EXCEPT !.drawn = TRUE]
          [] outcome = "chile" /\ mapGroup = "set" /\ drawn.threw ->
               /\ thrown' = "TypeError: lowerColor is undefined"
               /\ dom' = drawn.dom
               /\ hist' = [hist EXCEPT !.drawn = TRUE]
          [] outcome = "chile" /\ mapGroup = "set" /\ ~drawn.threw ->
               /\ thrown' = "none"
               /\ dom' = done(drawn.dom)
               /\ hist' = [hist EXCEPT !.drawn = TRUE]

\* the request of initMap, lines 149-156
WorldSettledInit ==
    /\ pendInit = 1
    /\ pendInit' = 0
    /\ initPc' = "done"
    /\ \E outcome \in WorldOutcomes : AfterWorld(outcome, TRUE)
    /\ UNCHANGED <<envVars, modVars, timers, pendResize, colorVars, normVars>>

\* a request of handleResize, lines 332-339
WorldSettledResize ==
    /\ pendResize > 0
    /\ pendResize' = pendResize - 1
    /\ \E outcome \in WorldOutcomes : AfterWorld(outcome, FALSE)
    /\ UNCHANGED <<envVars, modVars, initPc, timers, pendInit,
                   colorVars, normVars>>

\* clearTimeout(id)
clearNothing(ts, id) == ts

clearTimeout(ts, id) == { tm \in ts : tm.id # id }

\* setTimeout(handleResize, ms); timer ids count up from 1
setTimeout(ts, id, ms) == ts \cup {[id |-> id, left |-> ms]}

\* the resize listener, lines 348-351; the window has its new size
Resize ==
    /\ hist.resizes < MaxResizes
    /\ \E w \in Windows : window' = w
    /\ timers' = setTimeout(clearTimeout(timers, resizeTimer),
                            hist.resizes + 1, Delay)
    /\ resizeTimer' = hist.resizes + 1
    /\ hist' = [hist EXCEPT
                  !.resizes = @ + 1,
                  !.since = 0,
                  !.burstEvents = IF hist.since >= Delay THEN 1 ELSE @ + 1,
                  !.burstCalls = IF hist.since >= Delay THEN 0 ELSE @]
    /\ thrown' = "none"
    /\ UNCHANGED <<csv, airports, svg, mapGroup, current, initPc,
                   pendInit, pendResize, dom, colorVars, normVars>>

\* a timer that is due runs handleResize, lines 322-341
TimerFires ==
    \E tm \in timers :
        /\ tm.left = 0
        /\ timers' = timers \ {tm}
        /\ hist' = [hist EXCEPT !.burstCalls = @ + 1, !.quiet = hist.since]
        /\ LET dimensions == getMapDimensions(window)
           IN  IF dimensions # current
               THEN /\ current' = dimensions
                    /\ IF svg = "undefined"
                       THEN /\ thrown' = "TypeError: svg is undefined"
                            /\ UNCHANGED pendResize
                       ELSE /\ pendResize' = pendResize + 1
                            /\ thrown' = "none"
               ELSE /\ thrown' = "none"
                    /\ UNCHANGED <<current, pendResize>>
        /\ UNCHANGED <<envVars, airports, svg, mapGroup, resizeTimer,
                       initPc, pendInit, dom, colorVars, normVars>>

\* time passes; a timer may run later than it is due
Advance ==
    \E d \in Steps :
        /\ timers' = { [tm EXCEPT !.left = Max2(0, @ - d)] : tm \in timers }
        /\ hist' = [hist EXCEPT !.since = Min2(Delay, @ + d)]
        /\ UNCHANGED <<envVars, modVars, initPc, pendInit, pendResize, dom,
                       thrown, colorVars, normVars>>

NextPage ==
    \/ DOMContentLoaded
    \/ CsvSettled
    \/ WorldSettledInit
    \/ WorldSettledResize
    \/ Resize
    \/ TimerFires
    \/ Advance

----------------------------------------------------------------------------
(* Colour lookups *)

\* the segments whose closed interval holds both t1 and t2, t1 < t2
SharedSegments(t1, t2) ==
    { i \in 1..(Len(colors) - 1) :
        PosOf(i) <= t1 /\ t1 < t2 /\ t2 <= PosOf(i + 1) }

\* history: a segment that holds the last two lookups, in ascending order
PairOf(t1, t2) ==
    IF SharedSegments(t1, t2) = {} THEN 0 ELSE Min(SharedSegments(t1, t2))

\* createLegend, map.js 275-279: createColorScale(stop / 100)
LegendStop ==
    \E stop \in stops :
        /\ t' = stop * SubSteps
        /\ rgb' = createColorScale(stop * SubSteps)
        /\ pairSeg' = PairOf(t, stop * SubSteps)
        /\ UNCHANGED <<normVars, pageVars>>

\* drawMap, map.js 203: .attr("fill", d => colorScale(d.reduction_pct))
MarkerFill ==
    \E x \in 0..(MaxPct * SubSteps) :
        /\ t' = x
        /\ rgb' = colorScale(x)
        /\ pairSeg' = PairOf(t, x)
        /\ UNCHANGED <<normVars, pageVars>>

NextColor == LegendStop \/ MarkerFill

----------------------------------------------------------------------------
(* Coordinate repair of one raw field *)

Alphabet == {"-", ".", "3", "6"}

RawStrings == UNION { [1..n -> Alphabet] : n \in 0..MaxRawLen }

Normalize ==
    /\ coord.done = FALSE
    /\ coord' = [done |-> TRUE, nan |-> normalize(raw).nan,
                 val |-> normalize(raw).val]
    /\ UNCHANGED <<raw, colorVars, pageVars>>

NextNorm == Normalize

----------------------------------------------------------------------------
(* Specifications *)

\* the page, before DOMContentLoaded
Init ==
    /\ csv \in CsvFiles
    /\ window \in Windows
    /\ airports = <<>>
    /\ svg = "undefined"
    /\ mapGroup = "undefined"
    /\ current = NoDims
    /\ resizeTimer = 0
    /\ initPc = "start"
    /\ timers = {}
    /\ pendInit = 0
    /\ pendResize = 0
    /\ dom = EmptyDom
    /\ thrown = "none"
    /\ hist = NoHist
    /\ t = -1 /\ rgb = NoRgb /\ pairSeg = 0
    /\ raw = <<>> /\ coord = NoCoord

Spec == Init /\ [][NextPage]_vars

\* colour lookups alone
InitColor ==
    /\ t = -1 /\ rgb = NoRgb /\ pairSeg = 0
    /\ raw = <<>> /\ coord = NoCoord
    /\ csv = [ok |-> FALSE, columns |-> TRUE, rows |-> <<>>]
    /\ window = [clientWidth |-> 340, innerHeight |-> 800]
    /\ airports = <<>>
    /\ svg = "undefined"
    /\ mapGroup = "undefined"
    /\ current = NoDims
    /\ resizeTimer = 0
    /\ initPc = "start"
    /\ timers = {}
    /\ pendInit = 0
    /\ pendResize = 0
    /\ dom = EmptyDom
    /\ thrown = "none"
    /\ hist = NoHist

SpecColor == InitColor /\ [][NextColor]_vars

\* the coordinate repair alone
InitNorm ==
    /\ raw \in RawStrings
    /\ coord = NoCoord
    /\ t = -1 /\ rgb = NoRgb /\ pairSeg = 0
    /\ csv = [ok |-> FALSE, columns |-> TRUE, rows |-> <<>>]
    /\ window = [clientWidth |-> 340, innerHeight |-> 800]
    /\ airports = <<>>
    /\ svg = "undefined"
    /\ mapGroup = "undefined"
    /\ current = NoDims
    /\ resizeTimer = 0
    /\ initPc = "start"
    /\ timers = {}
    /\ pendInit = 0
    /\ pendResize = 0
    /\ dom = EmptyDom
    /\ thrown = "none"
    /\ hist = NoHist

SpecNorm == InitNorm /\ [][NextNorm]_vars

----------------------------------------------------------------------------
(* Claims about the colour scale *)

ControlPoints == 1..Len(colors)

\* C1: at every control point of the palette createColorScale returns that
\* point's colour exactly, the segment below and the segment above both
\* giving it; t = 0 gives rgb(79,195,247), t = 0.6 gives rgb(172,38,196)
\* and t = 1 gives rgb(239,83,80).
C1_ControlPointExact ==
    \A i \in ControlPoints :
        t = PosOf(i) =>
            /\ rgb.err = FALSE
            /\ <<rgb.r, rgb.g, rgb.b>> =
                   <<parseHex(colors[i].color).r, parseHex(colors[i].color).g,
                     parseHex(colors[i].color).b>>
            /\ (i > 1 => InSegment(i - 1, t) = rgb)
            /\ (i < Len(colors) => InSegment(i, t) = rgb)
            /\ (i = 1 => <<rgb.r, rgb.g, rgb.b>> = <<79, 195, 247>>)
            /\ (i = 4 => <<rgb.r, rgb.g, rgb.b>> = <<172, 38, 196>>)
            /\ (i = 6 => <<rgb.r, rgb.g, rgb.b>> = <<239, 83, 80>>)

\* a lookup at the interior control point 0.6 has been made
C1_Witness == t = PosOf(4) /\ rgb.err = FALSE /\ rgb.r = 172

\* C2: a lookup with t outside [0,1] raises no error and returns the
\* colour of the nearest end of the palette.
C2_OutOfRangeClamped ==
    t > Den =>
        /\ rgb.err = FALSE
        /\ <<rgb.r, rgb.g, rgb.b>> = <<239, 83, 80>>

Between(x, lo, hi) == (lo <= x /\ x <= hi) \/ (hi <= x /\ x <= lo)

\* channel value v1 at t1 and v2 at t2 > t1 in the segment from lo to up
MonotoneChannel(v1, v2, lo, up) ==
    /\ (up >= lo => v1 <= v2)
    /\ (up <= lo => v1 >= v2)
    /\ Between(v1, lo, up) /\ Between(v2, lo, up)
    /\ v1 \in 0..255 /\ v2 \in 0..255

MonotoneIn(i, c1, c2) ==
    LET lower == parseHex(colors[i].color)
        upper == parseHex(colors[i + 1].color)
    IN  /\ c1.err = FALSE /\ c2.err = FALSE
        /\ MonotoneChannel(c1.r, c2.r, lower.r, upper.r)
        /\ MonotoneChannel(c1.g, c2.g, lower.g, upper.g)
        /\ MonotoneChannel(c1.b, c2.b, lower.b, upper.b)

\* C6: for two lookups t1 < t2 in one segment every rounded channel moves
\* in the direction of the segment's control colours (or stays), and lies
\* between them and within 0..255.
C6_MonotoneInSegment ==
    [][ \A i \in SharedSegments(t, t') : MonotoneIn(i, rgb, rgb') ]_vars

\* two ascending lookups strictly inside the segment 0.4 .. 0.6, whose red
\* channel rises and whose green channel falls
C6_Witness ==
    /\ pairSeg = 3
    /\ PosOf(3) < t /\ t < PosOf(4)
    /\ 126 < rgb.r /\ rgb.r < 172
    /\ 38 < rgb.g /\ rgb.g < 87

----------------------------------------------------------------------------
(* Claims about the coordinate repair *)

\* the raw field without its '.' characters
Stripped == SelectSeq(raw, LAMBDA c : c # ".")

\* optional leading '-', digits otherwise, at least 6 characters
WellFormed(s) ==
    /\ Len(s) >= 6
    /\ s[1] \in Digits \cup {"-"}
    /\ \A i \in 2..Len(s) : s[i] \in Digits

\* the number written as characters 1-3, a point, characters 4-6 of s
Written(s) ==
    LET d(i) == DigitVal(s[i])
        frac == 100 * d(4) + 10 * d(5) + d(6)
    IN  IF s[1] = "-"
        THEN 0 - (1000 * (10 * d(2) + d(3)) + frac)
        ELSE 1000 * (100 * d(1) + 10 * d(2) + d(3)) + frac

\* C5: the repair drops every '.', and reads the first three characters
\* (a leading '-' being one of them), a point and the next three characters
\* as a number; characters after the sixth are dropped.
C5_NormalizeValue ==
    (coord.done /\ WellFormed(Stripped)) =>
        /\ coord.nan = FALSE
        /\ coord.val = Written(Stripped)
        /\ (SubSeq(Stripped, 1, 6) = <<"-", "3", "3", "6", "6", "3">>
               => coord.val = -33663)

\* a field with two misplaced points was repaired
C5_Witness ==
    /\ coord.done
    /\ raw = <<"-", "3", "3", ".", "6", "6", ".", "3">>
    /\ coord.val = -33663

----------------------------------------------------------------------------
(* Claims about the page *)

StrippedOf(str) == SelectSeq(str, LAMBDA c : c # ".")

WellFormedRow(d) == WellFormed(StrippedOf(d.lat)) /\ WellFormed(StrippedOf(d.lon))

Loaded == initPc \notin {"start", "awaitCsv"}

\* C3: a record whose latitude or longitude is not a number is kept out of
\* airports, and no marker is positioned from such a coordinate.
C3_NaNRecordExcluded ==
    /\ \A i \in 1..Len(airports) : ~IsNaNRecord(airports[i])
    /\ \A i \in 1..Len(dom.markers) : ~dom.markers[i].nanPos

\* the record the claim expects for a well-formed row
Expected(d) ==
    [lat |-> [nan |-> FALSE, val |-> Written(StrippedOf(d.lat))],
     lon |-> [nan |-> FALSE, val |-> Written(StrippedOf(d.lon))],
     reduction_pct |-> Abs(d.var_pct)]

\* C4: when the table has a well-formed row, airports holds a record for
\* every well-formed row whatever the other rows are, and initMap goes on
\* to set up and draw the map instead of stopping for want of data.
C4_BadRowSkipped ==
    (/\ Loaded
     /\ csv.ok /\ csv.columns
     /\ \E i \in 1..Len(csv.rows) : WellFormedRow(csv.rows[i]))
    =>
    /\ \A i \in 1..Len(csv.rows) :
          WellFormedRow(csv.rows[i]) =>
              \E j \in 1..Len(airports) : airports[j] = Expected(csv.rows[i])
    /\ initPc # "stopped"
    /\ svg = "set" /\ mapGroup = "set"

\* a table with a malformed row before a well-formed one was loaded and
\* the map was drawn
C4_Witness ==
    /\ csv.rows = <<BadRow, GoodRow>>
    /\ initPc = "done"
    /\ dom.outlines = 1

C8_NoUseWhileUnset ==
    /\ thrown # "TypeError: svg is undefined"
    /\ thrown # "TypeError: mapGroup is undefined"

OneOfEach ==
    /\ dom.outlines = 1
    /\ Len(dom.markers) = Len(airports)
    /\ dom.legendSvgs = 1
    /\ dom.legendLabels = 5
    /\ dom.gradients = 1
    /\ dom.stops = 51

\* C9: once a drawMap call has found Chile, the page holds one country
\* outline, one marker per airport, one legend SVG with five labels and one
\* legend gradient with 51 stops, however many redraws there were.
C9_OneOfEach == hist.drawn => OneOfEach

\* the same, for the tables in which every reduction_pct has a colour; with
\* any table nothing is ever held twice
OneOfEachInRange ==
    /\ (hist.drawn /\ BadFill(airports) = {}) => OneOfEach
    /\ dom.outlines <= 1 /\ Len(dom.markers) <= Len(airports)
    /\ dom.legendSvgs <= 1 /\ dom.legendLabels <= 5
    /\ dom.gradients <= 1 /\ dom.stops <= 51 /\ dom.defs <= 1

====
